---- MODULE Spec2Model ----
(***************************************************************************)
(* Model of cell-data/convert_bands.py: the record key normaliser          *)
(* normalize_record_keys and the band string classifier normalize_bands.   *)
(* Python strings are sequences of one-character strings.                  *)
(***************************************************************************)
EXTENDS Integers, Sequences, FiniteSets, TLC

VARIABLES
  band_str,  \* normalize_bands: the argument
  pc,        \* normalize_bands: "idle", "start", "loop", "done", "raised"
  parts,     \* normalize_bands: the list re.split returned
  i,         \* normalize_bands: index in parts of the loop's current element
  bands,     \* normalize_bands: the four-key accumulator
  result,    \* normalize_bands: the returned mapping
  log,       \* history: per non-empty token, the rule block entered and
             \* the identifier it appended (empty: none)
  rec_in,    \* normalize_record_keys: contents of the argument at the call
  heap,      \* dict objects by identity
  out_ref,   \* normalize_record_keys: the object the local out is bound to
  kpc,       \* normalize_record_keys: "idle", "start", "copied", "mcc",
             \* "mirrored", "ret"
  args,      \* concurrent calls: the argument of each call
  running,   \* concurrent calls: the call that is running
  frames,    \* concurrent calls: the locals of each call while it is not
             \* running
  raw,       \* batch loop: the records read from mcc-mnc.json
  bidx,      \* batch loop: index in raw of the loop's current record
  out_recs,  \* batch loop: the module-level list out
  passed,    \* history: the band_str passed to normalize_bands per record
  dst,       \* batch loop: the records written to mcc-mnc-converted.json
  bpc,       \* batch loop: "idle", "next", "keys", "bands", "written",
             \* "raised"
  script,    \* database batch: "load", "sync", "sat" or "none"
  dpc,       \* database batch: "idle", "connect", "truncate", "rows", "tle",
             \* "commit", "except", "finally", "done", "raised"
  rows,      \* database batch: the rows of the batch
  ridx,      \* database batch: index in rows of the loop's current row
  values,    \* load_into_postgres: the list values
  committed, \* the table as committed in Postgres
  tx,        \* the table as the connection's open transaction sees it
  before,    \* history: the committed table when the batch began
  exc,       \* database batch: the exception in flight, or "none"
  did_commit, \* history: conn.commit() returned
  ppc,       \* update pipeline: "idle", "download", "replace", "parse",
             \* "json", "load", "loading", "convert", "finish", "exit"
  files,     \* update pipeline: the output files this run has written
  status,    \* update pipeline: the exit status, "none" while running
  have_script \* update pipeline: convert_bands.py exists beside the script

nbvars == <<band_str, pc, parts, i, bands, result, log>>
kvars == <<rec_in, heap, out_ref, kpc>>
cvars == <<args, running, frames>>
bvars == <<raw, bidx, out_recs, passed, dst, bpc>>
dvars == <<script, dpc, rows, ridx, values, committed, tx, before, exc, did_commit>>
pvars == <<ppc, files, status, have_script>>
ovars == <<cvars, bvars, dvars, pvars>>
\* what a database batch leaves alone
notdb == <<nbvars, kvars, cvars, bvars, pvars>>
vars == <<nbvars, kvars, ovars>>

\* no concurrent calls are modelled
CallsIdle ==
  /\ args = <<>>
  /\ running = 0
  /\ frames = <<>>

\* the batch loop is not modelled
BatchIdle ==
  /\ raw = <<>>
  /\ bidx = 0
  /\ out_recs = <<>>
  /\ passed = <<>>
  /\ dst = <<>>
  /\ bpc = "idle"

\* no database batch is modelled
DbIdle ==
  /\ script = "none"
  /\ dpc = "idle"
  /\ rows = <<>>
  /\ ridx = 0
  /\ values = <<>>
  /\ committed = {}
  /\ tx = {}
  /\ before = {}
  /\ exc = "none"
  /\ did_commit = FALSE

\* the update pipeline is not modelled
PipeIdle ==
  /\ ppc = "idle"
  /\ files = {}
  /\ status = "none"
  /\ have_script = TRUE

OthersIdle == CallsIdle /\ BatchIdle /\ DbIdle /\ PipeIdle

(***************************************************************************)
(* Characters and the str methods the code calls.                          *)
(***************************************************************************)
LowerChars == <<"a","b","c","d","e","f","g","h","i","j","k","l","m",
                "n","o","p","q","r","s","t","u","v","w","x","y","z">>
UpperChars == <<"A","B","C","D","E","F","G","H","I","J","K","L","M",
                "N","O","P","Q","R","S","T","U","V","W","X","Y","Z">>
DigitChars == <<"0","1","2","3","4","5","6","7","8","9">>

IsSpace(c) == c \in {" ", "\t"}
IsDigit(c) == \E k \in 1..Len(DigitChars) : DigitChars[k] = c

\* str.upper() on one character
UpperChar(c) ==
  IF \E k \in 1..Len(LowerChars) : LowerChars[k] = c
  THEN UpperChars[CHOOSE k \in 1..Len(LowerChars) : LowerChars[k] = c]
  ELSE c

\* str.upper()
Upper(s) == [k \in 1..Len(s) |-> UpperChar(s[k])]

\* str.strip(): drop leading and trailing whitespace
Strip(s) ==
  LET keep == {k \in 1..Len(s) : ~IsSpace(s[k])}
  IN IF keep = {} THEN <<>>
     ELSE LET lo == CHOOSE k \in keep : \A m \in keep : k <= m
              hi == CHOOSE k \in keep : \A m \in keep : m <= k
          IN SubSeq(s, lo, hi)

\* sub in s
Contains(s, sub) ==
  \E k \in 1..(Len(s) - Len(sub) + 1) : SubSeq(s, k, k + Len(sub) - 1) = sub

\* s.startswith(pre)
StartsWith(s, pre) == Len(s) >= Len(pre) /\ SubSeq(s, 1, Len(pre)) = pre

\* first index >= k of s that holds no whitespace (Len(s) + 1 if none)
RECURSIVE SkipSpaces(_, _)
SkipSpaces(s, k) ==
  IF k <= Len(s) /\ IsSpace(s[k]) THEN SkipSpaces(s, k + 1) ELSE k

(***************************************************************************)
(* re.split(r"/|,|\+|\s+and\s+", band_str)                                 *)
(***************************************************************************)
\* the separator pattern without the plus sign
SepLenNoPlus(s, k) ==
  IF s[k] \in {"/", ","} THEN 1
  ELSE IF IsSpace(s[k])
  THEN LET j == SkipSpaces(s, k)
       IN IF j + 3 <= Len(s) /\ SubSeq(s, j, j + 2) = <<"a","n","d">>
             /\ IsSpace(s[j + 3])
          THEN SkipSpaces(s, j + 3) - k
          ELSE 0
  ELSE 0

\* length of the separator matched at position k of s (0: no match there)
SepLen(s, k) ==
  IF s[k] \in {"/", ",", "+"} THEN 1
  ELSE IF IsSpace(s[k])
  THEN LET j == SkipSpaces(s, k)
       IN IF j + 3 <= Len(s) /\ SubSeq(s, j, j + 2) = <<"a","n","d">>
             /\ IsSpace(s[j + 3])
          THEN SkipSpaces(s, j + 3) - k
          ELSE 0
  ELSE 0

RECURSIVE SplitFrom(_, _, _)
SplitFrom(s, k, cur) ==
  IF k > Len(s) THEN <<cur>>
  ELSE IF SepLen(s, k) > 0
       THEN <<cur>> \o SplitFrom(s, k + SepLen(s, k), <<>>)
       ELSE SplitFrom(s, k + 1, Append(cur, s[k]))

re_split(s) == SplitFrom(s, 1, <<>>)

(***************************************************************************)
(* re.search(r"(\\d+)", p): in a raw string the pattern is a backslash     *)
(* followed by one or more letters d. The value is group(1), or the empty  *)
(* sequence for None.                                                      *)
(***************************************************************************)
RECURSIVE SkipD(_, _)
SkipD(s, k) == IF k <= Len(s) /\ s[k] = "d" THEN SkipD(s, k + 1) ELSE k

re_search(p) ==
  LET hits == {k \in 1..(Len(p) - 1) : p[k] = "\\" /\ p[k + 1] = "d"}
  IN IF hits = {} THEN <<>>
     ELSE LET k == CHOOSE h \in hits : \A m \in hits : h <= m
          IN SubSeq(p, k, SkipD(p, k + 1) - 1)

\* int(text) raises ValueError unless text is a run of digits
IntRaises(text) == text = <<>> \/ \E k \in 1..Len(text) : ~IsDigit(text[k])

DigitVal(c) == (CHOOSE k \in 1..Len(DigitChars) : DigitChars[k] = c) - 1

RECURSIVE PyInt(_)
PyInt(text) ==
  IF text = <<>> THEN 0
  ELSE 10 * PyInt(SubSeq(text, 1, Len(text) - 1)) + DigitVal(text[Len(text)])

RECURSIVE PyStr(_)
PyStr(n) ==
  IF n < 10 THEN <<DigitChars[n + 1]>>
  ELSE PyStr(n \div 10) \o <<DigitChars[(n % 10) + 1]>>

(***************************************************************************)
(* normalize_bands                                                         *)
(***************************************************************************)
\* {}
EmptyDict == [k \in {} |-> <<>>]

\* None, kept apart from every string (whose elements are single characters)
None == <<"None">>

Gens == {"2G", "3G", "4G", "5G"}

\* bands = {"2G": [], "3G": [], "4G": [], "5G": []}
EmptyBands == [g \in Gens |-> <<>>]

LTE_FREQ_TO_BAND ==
  (700 :> <<"1","2">>) @@ (800 :> <<"2","0">>) @@ (850 :> <<"5">>) @@
  (900 :> <<"8">>) @@ (1500 :> <<"3","2">>) @@ (1700 :> <<"4">>) @@
  (1800 :> <<"3">>) @@ (1900 :> <<"2">>) @@ (2100 :> <<"1">>) @@
  (2600 :> <<"7">>)

GSM_FREQ_TO_BAND ==
  (850 :> <<"5">>) @@ (900 :> <<"8">>) @@ (1800 :> <<"3">>) @@
  (1900 :> <<"2">>)

\* table.get(mhz, None); the empty sequence stands for None
TableGet(table, mhz) == IF mhz \in DOMAIN table THEN table[mhz] ELSE <<>>

\* if band_str == "": lets None through to re.split
FalsyEmptyOnly(s) == s = <<>>

\* not band_str
Falsy(s) == s = None \/ s = <<>>

\* p = p.strip().upper() for the loop's current element
Tok == Upper(Strip(parts[i]))

\* the conditions under which each rule block is entered; the continue that
\* ends a block keeps the token from every later block
Enters5G(p) == Contains(p, <<"N","R">>) \/ StartsWith(p, <<"N">>)
EntersLTE(p) == ~Enters5G(p) /\ Contains(p, <<"L","T","E">>)
\* the GSM block reached although the LTE block took the token
EntersGSMAfterLTE(p) == ~Enters5G(p) /\ Contains(p, <<"G","S","M">>)
EntersGSM(p) == ~Enters5G(p) /\ ~Contains(p, <<"L","T","E">>)
                /\ Contains(p, <<"G","S","M">>)
Has3GName(p) == Contains(p, <<"U","M","T","S">>)
                \/ Contains(p, <<"W","C","D","M","A">>)
                \/ Contains(p, <<"H","S","P","A">>)
Enters3G(p) == ~Enters5G(p) /\ ~Contains(p, <<"L","T","E">>)
               /\ ~Contains(p, <<"G","S","M">>) /\ Has3GName(p)

\* the identifier each block appends for the match text m
Ident5G(m) == <<"n">> \o m
IdentLTE(m) ==
  LET mhz == PyInt(m)
      band == TableGet(LTE_FREQ_TO_BAND, mhz)
  IN IF band # <<>> THEN <<"B">> \o band ELSE <<"B">> \o PyStr(mhz)
IdentGSM(m) ==
  LET mhz == PyInt(m)
      band == TableGet(GSM_FREQ_TO_BAND, mhz)
  IN IF band # <<>> THEN band ELSE PyStr(mhz)
Ident3G(m) == m

\* return bands, without the filter
KeepEmpty(b) == b

\* {gen: arr for gen, arr in bands.items() if arr}
StripEmpty(b) == [g \in {x \in DOMAIN b : b[x] # <<>>} |-> b[g]]

Entry(p, gen, ident) == [tok |-> p, gen |-> gen, ident |-> ident]

\* a block that appends ident under gen and continues
Emit(gen, ident) ==
  /\ bands' = [bands EXCEPT ![gen] = Append(@, ident)]
  /\ log' = Append(log, Entry(Tok, gen, ident))
  /\ i' = i + 1
  /\ UNCHANGED <<band_str, pc, parts, result>>

\* a block whose search found nothing: continue
NoEmit(gen) ==
  /\ log' = Append(log, Entry(Tok, gen, <<>>))
  /\ i' = i + 1
  /\ UNCHANGED <<band_str, pc, parts, bands, result>>

\* an exception leaves normalize_bands
Raise ==
  /\ pc' = "raised"
  /\ UNCHANGED <<band_str, parts, i, bands, result, log>>

InLoop == pc = "loop" /\ i <= Len(parts)

NB_EarlyReturn ==
  /\ pc = "start"
  /\ Falsy(band_str)
  /\ pc' = "done"
  /\ result' = EmptyDict
  /\ UNCHANGED <<band_str, parts, i, bands, log, kvars, ovars>>

NB_Split ==
  /\ pc = "start"
  /\ ~Falsy(band_str)
  /\ IF band_str = None
     THEN Raise
     ELSE /\ parts' = re_split(band_str)
          /\ bands' = EmptyBands
          /\ i' = 1
          /\ pc' = "loop"
          /\ UNCHANGED <<band_str, result, log>>
  /\ UNCHANGED <<kvars, ovars>>

NB_SkipEmpty ==
  /\ InLoop
  /\ Tok = <<>>
  /\ i' = i + 1
  /\ UNCHANGED <<band_str, pc, parts, bands, result, log, kvars, ovars>>

NB_5G ==
  /\ InLoop
  /\ Tok # <<>>
  /\ Enters5G(Tok)
  /\ LET m == re_search(Tok)
     IN IF m # <<>> THEN Emit("5G", Ident5G(m)) ELSE NoEmit("5G")
  /\ UNCHANGED <<kvars, ovars>>

NB_LTE ==
  /\ InLoop
  /\ Tok # <<>>
  /\ EntersLTE(Tok)
  /\ LET m == re_search(Tok)
     IN IF m = <<>> THEN NoEmit("4G")
        ELSE IF IntRaises(m) THEN Raise
        ELSE Emit("4G", IdentLTE(m))
  /\ UNCHANGED <<kvars, ovars>>

NB_GSM ==
  /\ InLoop
  /\ Tok # <<>>
  /\ EntersGSM(Tok)
  /\ LET m == re_search(Tok)
     IN IF m = <<>> THEN NoEmit("2G")
        ELSE IF IntRaises(m) THEN Raise
        ELSE Emit("2G", IdentGSM(m))
  /\ UNCHANGED <<kvars, ovars>>

NB_3G ==
  /\ InLoop
  /\ Tok # <<>>
  /\ Enters3G(Tok)
  /\ LET m == re_search(Tok)
     IN IF m # <<>> THEN Emit("3G", Ident3G(m)) ELSE NoEmit("3G")
  /\ UNCHANGED <<kvars, ovars>>

\* no rule matched: the loop body ends without appending
NB_NoMatch ==
  /\ InLoop
  /\ Tok # <<>>
  /\ ~Enters5G(Tok) /\ ~EntersLTE(Tok) /\ ~EntersGSM(Tok) /\ ~Enters3G(Tok)
  /\ NoEmit("none")
  /\ UNCHANGED <<kvars, ovars>>

NB_Return ==
  /\ pc = "loop"
  /\ i > Len(parts)
  /\ result' = StripEmpty(bands)
  /\ pc' = "done"
  /\ UNCHANGED <<band_str, parts, i, bands, log, kvars, ovars>>

(***************************************************************************)
(* Argument strings for normalize_bands: every concatenation of at most    *)
(* MaxChunks chunks, the strings the documentation gives as scenarios, and *)
(* None.                                                                   *)
(***************************************************************************)
MaxChunks == 3

Chunks ==
  { <<"L","T","E">>, <<"G","S","M">>, <<"U","M","T","S">>, <<"N","R">>,
    <<"n">>, <<"1","8","0","0">>, <<"7","8">>, <<"/">>, <<",">>, <<"+">>,
    <<" ","a","n","d"," ">>, <<" ">>, <<"\\","d">> }

RECURSIVE ChunkStrings(_)
ChunkStrings(n) ==
  IF n = 0 THEN {<<>>}
  ELSE LET prev == ChunkStrings(n - 1)
       IN prev \cup {s \o c : s \in prev, c \in Chunks}

Scenarios ==
  { <<"L","T","E","1","8","0","0","/","L","T","E","2","6","0","0">>,
    <<"G","S","M","9","0","0","/","G","S","M","1","8","0","0","/",
      "U","M","T","S","2","1","0","0","/","L","T","E","2","6","0","0">>,
    <<"L","T","E","1","2","3","4">>,
    <<"W","i","M","A","X","2","5","0","0">>,
    <<"n","7","8">>, <<"N","7","8">>, <<"N","R"," ","7","8">>,
    <<"L","T","E","1","8","0","0",",","L","T","E"," ","1","8","0","0">>,
    <<"L","T","E"," ","G","S","M","9","0","0">>,
    <<"G","S","M","4","5","0","+","H","S","P","A","0","9","0","0">>,
    <<"G","S","M"," "," ","a","n","d"," ","L","T","E",",","+"," ","n"," ">> }

BandStrings == ChunkStrings(MaxChunks) \cup Scenarios \cup {None}

KeysIdle ==
  /\ rec_in = EmptyDict
  /\ heap = <<EmptyDict, EmptyDict>>
  /\ out_ref = 0
  /\ kpc = "idle"

InitBands ==
  /\ band_str \in BandStrings
  /\ pc = "start"
  /\ parts = <<>>
  /\ i = 0
  /\ bands = EmptyBands
  /\ result = EmptyDict
  /\ log = <<>>
  /\ KeysIdle
  /\ OthersIdle

NextBands ==
  \/ NB_EarlyReturn
  \/ NB_Split
  \/ NB_SkipEmpty
  \/ NB_5G
  \/ NB_LTE
  \/ NB_GSM
  \/ NB_3G
  \/ NB_NoMatch
  \/ NB_Return

SpecBands == InitBands /\ [][NextBands]_vars

(***************************************************************************)
(* normalize_record_keys. Dicts are functions from keys to values and live *)
(* in heap, so that two names bound to one object can be told from two     *)
(* objects with equal contents.                                            *)
(***************************************************************************)
BOM_MCC_KEY == "<U+FEFF>MCC"

\* the caller's record object and the object dict(rec) creates
RecObj == 1
NewObj == 2

\* d[k] = v
DictSet(d, k, v) == [x \in (DOMAIN d) \cup {k} |-> IF x = k THEN v ELSE d[x]]

\* d without key k, as d.pop(k) leaves it
DictDel(d, k) == [x \in (DOMAIN d) \ {k} |-> d[x]]

\* out = rec: no copy
AliasRef(r) == r

\* out = dict(rec): the object out is bound to
DictCopyRef(r) == NewObj

\* BOM_MCC_KEY in out and "MCC" not in out
NeedsMCC(o) == BOM_MCC_KEY \in DOMAIN o /\ "MCC" \notin DOMAIN o

\* out["MCC"] = out[BOM_MCC_KEY], the alias not popped
CopyBomToMCC(o) == DictSet(o, "MCC", o[BOM_MCC_KEY])

\* out["MCC"] = out.pop(BOM_MCC_KEY)
MoveBomToMCC(o) == DictSet(DictDel(o, BOM_MCC_KEY), "MCC", o[BOM_MCC_KEY])

\* the elif branch alone
MirrorLowerOnly(o) ==
  IF "bands" \in DOMAIN o /\ "Bands" \notin DOMAIN o
  THEN DictSet(o, "Bands", o["bands"])
  ELSE o

\* the if / elif on "Bands" and "bands"
MirrorBands(o) ==
  IF "Bands" \in DOMAIN o /\ "bands" \notin DOMAIN o
  THEN DictSet(o, "bands", o["Bands"])
  ELSE IF "bands" \in DOMAIN o /\ "Bands" \notin DOMAIN o
  THEN DictSet(o, "Bands", o["bands"])
  ELSE o

NRK_Copy ==
  /\ kpc = "start"
  /\ out_ref' = DictCopyRef(RecObj)
  /\ heap' = [heap EXCEPT ![out_ref'] = heap[RecObj]]
  /\ kpc' = "copied"
  /\ UNCHANGED <<rec_in, nbvars, ovars>>

NRK_MCC ==
  /\ kpc = "copied"
  /\ heap' = IF NeedsMCC(heap[out_ref])
             THEN [heap EXCEPT ![out_ref] = MoveBomToMCC(@)]
             ELSE heap
  /\ kpc' = "mcc"
  /\ UNCHANGED <<rec_in, out_ref, nbvars, ovars>>

NRK_Bands ==
  /\ kpc = "mcc"
  /\ heap' = [heap EXCEPT ![out_ref] = MirrorBands(@)]
  /\ kpc' = "mirrored"
  /\ UNCHANGED <<rec_in, out_ref, nbvars, ovars>>

NRK_Return ==
  /\ kpc = "mirrored"
  /\ kpc' = "ret"
  /\ UNCHANGED <<rec_in, heap, out_ref, nbvars, ovars>>

\* the record normalize_record_keys returned
out == heap[out_ref]

\* the caller's record object as it is now
rec == heap[RecObj]

(***************************************************************************)
(* Argument records: every dict over RecKeys with values in RecValues.     *)
(***************************************************************************)
RecKeys == {BOM_MCC_KEY, "MCC", "Bands", "bands", "Network"}

RecValues ==
  { <<>>, <<"3","1","0">>, <<"L","T","E","1","8","0","0">>,
    <<"G","S","M","9","0","0">> }

Records == UNION {[ks -> RecValues] : ks \in SUBSET RecKeys}

BandsIdle ==
  /\ band_str = <<>>
  /\ pc = "idle"
  /\ parts = <<>>
  /\ i = 0
  /\ bands = EmptyBands
  /\ result = EmptyDict
  /\ log = <<>>

InitKeys ==
  /\ rec_in \in Records
  /\ heap = <<rec_in, EmptyDict>>
  /\ out_ref = 0
  /\ kpc = "start"
  /\ BandsIdle
  /\ OthersIdle

NextKeys ==
  \/ NRK_Copy
  \/ NRK_MCC
  \/ NRK_Bands
  \/ NRK_Return

SpecKeys == InitKeys /\ [][NextKeys]_vars

(***************************************************************************)
(* Vocabulary of the properties: what the documentation calls the first    *)
(* digit run of a token, and the rule a token matches first.               *)
(***************************************************************************)
RECURSIVE SkipDigits(_, _)
SkipDigits(s, k) ==
  IF k <= Len(s) /\ IsDigit(s[k]) THEN SkipDigits(s, k + 1) ELSE k

\* the first maximal run of decimal digits of p (empty: p has no digit)
FirstDigitRun(p) ==
  LET ds == {k \in 1..Len(p) : IsDigit(p[k])}
  IN IF ds = {} THEN <<>>
     ELSE LET k == CHOOSE d \in ds : \A m \in ds : d <= m
          IN SubSeq(p, k, SkipDigits(p, k) - 1)

Matches5GRule(p) == Contains(p, <<"N","R">>) \/ StartsWith(p, <<"N">>)
MatchesLTERule(p) == Contains(p, <<"L","T","E">>) /\ ~Matches5GRule(p)

FirstMatch(p) ==
  IF Matches5GRule(p) THEN "5G"
  ELSE IF Contains(p, <<"L","T","E">>) THEN "4G"
  ELSE IF Contains(p, <<"G","S","M">>) THEN "2G"
  ELSE IF Has3GName(p) THEN "3G"
  ELSE "none"

Returned == pc = "done"

\* the list the returned mapping holds under g (empty: g is absent)
ResultList(g) == IF g \in DOMAIN result THEN result[g] ELSE <<>>

\* the identifiers the tokens classified as g appended, in token order
RECURSIVE EmittedFrom(_, _)
EmittedFrom(g, k) ==
  IF k > Len(log) THEN <<>>
  ELSE (IF log[k].gen = g /\ log[k].ident # <<>> THEN <<log[k].ident>> ELSE <<>>)
       \o EmittedFrom(g, k + 1)

\* C1: every token that reaches the LTE rule and contains a digit run adds
\* exactly one identifier to "4G": "B" + the table's band for a frequency
\* of the table, "B" + the frequency otherwise; "LTE1234" gives
\* {"4G": ["B1234"]}.
C1_LTEIdentifier ==
  Returned =>
    /\ \A k \in 1..Len(log) :
         LET p == log[k].tok
             f == FirstDigitRun(p)
         IN (MatchesLTERule(p) /\ f # <<>>) =>
              /\ log[k].gen = "4G"
              /\ log[k].ident =
                   <<"B">> \o (IF PyInt(f) \in DOMAIN LTE_FREQ_TO_BAND
                               THEN LTE_FREQ_TO_BAND[PyInt(f)]
                               ELSE PyStr(PyInt(f)))
    /\ Len(ResultList("4G")) =
         Cardinality({k \in 1..Len(log) :
                        MatchesLTERule(log[k].tok)
                        /\ FirstDigitRun(log[k].tok) # <<>>})
    /\ (band_str = <<"L","T","E","1","2","3","4">>
          => result = ("4G" :> << <<"B","1","2","3","4">> >>))

\* C2: a GSM token adds the GSM table's band number, or else the raw MHz
\* value, under "2G", and a UMTS/WCDMA/HSPA token adds its first digit run
\* under "3G"; "GSM900/GSM1800/UMTS2100/LTE2600" gives
\* {"2G": ["8","3"], "3G": ["2100"], "4G": ["B7"]}.
C2_MixedGenerations ==
  Returned =>
    /\ \A k \in 1..Len(log) :
         LET p == log[k].tok
             f == FirstDigitRun(p)
         IN /\ (FirstMatch(p) = "2G" /\ f # <<>>) =>
                 /\ log[k].gen = "2G"
                 /\ log[k].ident =
                      (IF PyInt(f) \in DOMAIN GSM_FREQ_TO_BAND
                       THEN GSM_FREQ_TO_BAND[PyInt(f)]
                       ELSE PyStr(PyInt(f)))
            /\ (FirstMatch(p) = "3G" /\ f # <<>>) =>
                 /\ log[k].gen = "3G"
                 /\ log[k].ident = f
    /\ (band_str = <<"G","S","M","9","0","0","/","G","S","M","1","8","0","0",
                     "/","U","M","T","S","2","1","0","0","/",
                     "L","T","E","2","6","0","0">>
          => result = ("2G" :> << <<"8">>, <<"3">> >>)
                      @@ ("3G" :> << <<"2","1","0","0">> >>)
                      @@ ("4G" :> << <<"B","7">> >>))

\* C3: every token matching the 5G rule that contains a digit run adds
\* "n" + its first digit run to "5G", with a lowercase n whatever the
\* casing of the input; a 5G token with no digit run adds nothing.
C3_NRIdentifier ==
  Returned =>
    \A k \in 1..Len(log) :
      LET p == log[k].tok
          f == FirstDigitRun(p)
      IN Matches5GRule(p) =>
           /\ log[k].gen = "5G"
           /\ log[k].ident = (IF f # <<>> THEN <<"n">> \o f ELSE <<>>)

\* C4: the list returned under each generation is the sequence of
\* identifiers the tokens classified into it appended, in token order,
\* unsorted and with duplicates; "LTE1800/LTE2600" gives
\* {"4G": ["B3","B7"]}, and two tokens resolving to one band both appear.
C4_OrderPreserved ==
  Returned =>
    /\ \A g \in Gens : ResultList(g) = EmittedFrom(g, 1)
    /\ (band_str = <<"L","T","E","1","8","0","0","/",
                     "L","T","E","2","6","0","0">>
          => result = ("4G" :> << <<"B","3">>, <<"B","7">> >>))
    /\ (band_str = <<"L","T","E","1","8","0","0",",",
                     "L","T","E"," ","1","8","0","0">>
          => result = ("4G" :> << <<"B","3">>, <<"B","3">> >>))

\* C5: the returned mapping has keys only among "2G", "3G", "4G", "5G",
\* every key present maps to a non-empty list, and a generation into which
\* nothing was appended is absent.
C5_NoEmptyLists ==
  Returned =>
    /\ DOMAIN result \subseteq Gens
    /\ \A g \in DOMAIN result : result[g] # <<>>
    /\ \A g \in Gens : EmittedFrom(g, 1) = <<>> => g \notin DOMAIN result

C5_Witness ==
  /\ Returned
  /\ \E k \in 1..Len(log) : log[k].gen = "4G"
  /\ \E k \in 1..Len(log) : log[k].gen = "2G"
  /\ DOMAIN result \cap {"2G", "4G"} = {}

\* the number of elements of parts that are not empty once stripped
NonEmptyParts == Cardinality({k \in 1..Len(parts) : Strip(parts[k]) # <<>>})

\* C6: normalize_bands never raises; "" and None return the empty mapping;
\* a token matching no rule ("WiMAX2500") and a rule-matched token without
\* a digit run add nothing and do not keep the remaining tokens from being
\* processed.
C6_NeverRaises ==
  /\ pc # "raised"
  /\ (Returned /\ band_str \in {None, <<>>}) => result = EmptyDict
  /\ (Returned /\ band_str = <<"W","i","M","A","X","2","5","0","0">>)
       => result = EmptyDict
  /\ (Returned /\ band_str \notin {None, <<>>}) =>
       /\ Len(log) = NonEmptyParts
       /\ \A k \in 1..Len(log) :
            (log[k].gen = "none" \/ FirstDigitRun(log[k].tok) = <<>>)
              => log[k].ident = <<>>

C6_Witness ==
  /\ Returned
  /\ band_str = None
  /\ result = EmptyDict

\* C7: classification is first-match-wins in the order 5G, LTE, GSM, 3G:
\* every token enters the block of the first rule it matches and no other,
\* a token containing "LTE" and "GSM" (and not 5G) is classified 4G and
\* adds nothing to "2G", and a token without a digit run is not passed on
\* to a later rule.
C7_FirstMatchWins ==
  /\ \A k \in 1..Len(log) :
       /\ log[k].gen = FirstMatch(log[k].tok)
       /\ (Contains(log[k].tok, <<"L","T","E">>)
            /\ Contains(log[k].tok, <<"G","S","M">>)
            /\ ~Matches5GRule(log[k].tok)) => log[k].gen = "4G"
  /\ \A g \in Gens : bands[g] = EmittedFrom(g, 1)
  /\ pc = "loop" =>
       Len(log) = Cardinality({k \in 1..(i - 1) : Strip(parts[k]) # <<>>})

C7_Witness ==
  /\ Returned
  /\ \E k \in 1..Len(log) :
       /\ Contains(log[k].tok, <<"L","T","E">>)
       /\ Contains(log[k].tok, <<"G","S","M">>)
       /\ log[k].gen = "4G"
  /\ bands["2G"] = <<>>

(***************************************************************************)
(* Properties of normalize_record_keys                                     *)
(***************************************************************************)
KeysReturned == kpc = "ret"

\* C8: a record that held only the BOM-prefixed key exposes its value under
\* "MCC", and a record that held only "Bands" exposes the same value under
\* "bands".
C8_AliasExposed ==
  KeysReturned =>
    /\ (BOM_MCC_KEY \in DOMAIN rec_in /\ "MCC" \notin DOMAIN rec_in) =>
         ("MCC" \in DOMAIN out /\ out["MCC"] = rec_in[BOM_MCC_KEY])
    /\ ("Bands" \in DOMAIN rec_in /\ "bands" \notin DOMAIN rec_in) =>
         /\ "bands" \in DOMAIN out /\ out["bands"] = rec_in["Bands"]
         /\ "Bands" \in DOMAIN out /\ out["Bands"] = rec_in["Bands"]

C8_Witness ==
  /\ KeysReturned
  /\ DOMAIN rec_in = {BOM_MCC_KEY, "Bands"}
  /\ out["MCC"] = <<"3","1","0">>
  /\ out["bands"] = <<"L","T","E","1","8","0","0">>

\* C9: when a record holds an alias key and its canonical key with
\* different values, both values stay where they were, and the caller's
\* record object is never changed.
C9_BothKept ==
  /\ rec = rec_in
  /\ KeysReturned =>
       /\ ({BOM_MCC_KEY, "MCC"} \subseteq DOMAIN rec_in
            /\ rec_in[BOM_MCC_KEY] # rec_in["MCC"]) =>
            /\ {BOM_MCC_KEY, "MCC"} \subseteq DOMAIN out
            /\ out["MCC"] = rec_in["MCC"]
            /\ out[BOM_MCC_KEY] = rec_in[BOM_MCC_KEY]
       /\ ({"Bands", "bands"} \subseteq DOMAIN rec_in
            /\ rec_in["Bands"] # rec_in["bands"]) =>
            /\ {"Bands", "bands"} \subseteq DOMAIN out
            /\ out["bands"] = rec_in["bands"]
            /\ out["Bands"] = rec_in["Bands"]

C9_Witness ==
  /\ KeysReturned
  /\ {BOM_MCC_KEY, "MCC", "Bands", "bands"} \subseteq DOMAIN rec_in
  /\ rec_in[BOM_MCC_KEY] # rec_in["MCC"]
  /\ rec_in["Bands"] # rec_in["bands"]
  /\ out = rec_in

\* C10 as stated: the returned record never holds both the BOM-prefixed
\* key and "MCC", and never holds both "Bands" and "bands".
C10_OneKeyPerField ==
  KeysReturned =>
    /\ ~({BOM_MCC_KEY, "MCC"} \subseteq DOMAIN out)
    /\ ~({"Bands", "bands"} \subseteq DOMAIN out)

\* C10 amended: the returned record holds the canonical key of every field
\* the input held under either spelling; the BOM-prefixed key stays beside
\* "MCC" exactly when the input held both, and "Bands" and "bands" are
\* always present together.
C10_CanonicalPresent ==
  KeysReturned =>
    /\ "MCC" \in DOMAIN out
         <=> (DOMAIN rec_in \cap {BOM_MCC_KEY, "MCC"} # {})
    /\ BOM_MCC_KEY \in DOMAIN out
         <=> ({BOM_MCC_KEY, "MCC"} \subseteq DOMAIN rec_in)
    /\ "bands" \in DOMAIN out
         <=> (DOMAIN rec_in \cap {"Bands", "bands"} # {})
    /\ "Bands" \in DOMAIN out <=> "bands" \in DOMAIN out

C10_Witness ==
  /\ KeysReturned
  /\ DOMAIN rec_in = {BOM_MCC_KEY, "bands"}
  /\ DOMAIN out = {"MCC", "Bands", "bands"}

(***************************************************************************)
(* Properties of the tokenizer inside normalize_bands                      *)
(***************************************************************************)
\* x is one separator: a slash, a comma, a plus sign, or the word "and"
\* with whitespace on both sides
IsSeparator(x) ==
  \/ x \in {<<"/">>, <<",">>, <<"+">>}
  \/ \E a \in 1..Len(x) : \E b \in 1..Len(x) :
       /\ a + 3 + b = Len(x)
       /\ \A k \in 1..a : IsSpace(x[k])
       /\ SubSeq(x, a + 1, a + 3) = <<"a","n","d">>
       /\ \A k \in (a + 4)..Len(x) : IsSpace(x[k])

\* x holds a separator somewhere
HoldsSeparator(x) ==
  \E a \in 1..Len(x) : \E b \in a..Len(x) : IsSeparator(SubSeq(x, a, b))

\* s from position pos on is ps[k], a separator, ps[k + 1], ..., ps[Len(ps)]
RECURSIVE JoinsTo(_, _, _, _)
JoinsTo(s, ps, k, pos) ==
  LET after == pos + Len(ps[k])
  IN /\ after <= Len(s) + 1
     /\ SubSeq(s, pos, after - 1) = ps[k]
     /\ IF k = Len(ps) THEN after = Len(s) + 1
        ELSE \E n \in 1..(Len(s) - after + 1) :
               /\ IsSeparator(SubSeq(s, after, after + n - 1))
               /\ JoinsTo(s, ps, k + 1, after + n)

\* the elements of parts before position n that are not empty once trimmed
RECURSIVE KeptParts(_)
KeptParts(n) ==
  IF n = 0 THEN <<>>
  ELSE KeptParts(n - 1)
       \o (IF Strip(parts[n]) # <<>> THEN <<parts[n]>> ELSE <<>>)

\* C13: the band string is split at every slash, comma, plus sign and
\* whitespace-surrounded "and", so that the pieces joined by such
\* separators give the string back and no piece holds a separator; every
\* token classified is a piece trimmed and uppercased, and pieces empty
\* after trimming are dropped and add nothing.
C13_Tokenizer ==
  /\ (Returned /\ band_str \in {None, <<>>}) => log = <<>>
  /\ (pc \in {"loop", "done"} /\ band_str \notin {None, <<>>}) =>
    /\ parts # <<>>
    /\ JoinsTo(band_str, parts, 1, 1)
    /\ \A k \in 1..Len(parts) : ~HoldsSeparator(parts[k])
    /\ LET kept == KeptParts(IF pc = "done" THEN Len(parts) ELSE i - 1)
       IN /\ Len(log) = Len(kept)
          /\ \A k \in 1..Len(log) :
               LET t == log[k].tok
               IN /\ t # <<>>
                  /\ ~IsSpace(t[1]) /\ ~IsSpace(t[Len(t)])
                  /\ \A c \in 1..Len(t) : UpperChar(t[c]) = t[c]
                  /\ \E a \in 0..Len(kept[k]) : \E b \in 0..Len(kept[k]) :
                       /\ a + Len(t) + b = Len(kept[k])
                       /\ \A c \in 1..Len(t) :
                            t[c] = UpperChar(kept[k][a + c])
                       /\ \A c \in 1..a : IsSpace(kept[k][c])
                       /\ \A c \in (a + Len(t) + 1)..Len(kept[k]) :
                            IsSpace(kept[k][c])
    /\ \A g \in Gens : Len(bands[g]) <= Len(log)

C13_Witness ==
  /\ Returned
  /\ band_str = <<"G","S","M"," "," ","a","n","d"," ","L","T","E",",","+",
                  " ","n"," ">>
  /\ parts = << <<"G","S","M">>, <<"L","T","E">>, <<>>, <<" ","n"," ">> >>
  /\ Len(log) = 3
  /\ log[3].tok = <<"N">>

(***************************************************************************)
(* normalize_bands run from start to return without interruption, as the   *)
(* batch loop runs it: the value it returns for s.                         *)
(***************************************************************************)
\* the rule block a token enters ("none": no block)
BlockOf(p) ==
  IF Enters5G(p) THEN "5G"
  ELSE IF EntersLTE(p) THEN "4G"
  ELSE IF EntersGSM(p) THEN "2G"
  ELSE IF Enters3G(p) THEN "3G"
  ELSE "none"

\* the identifier the block gen appends for the match text m
IdentOf(gen, m) ==
  IF gen = "5G" THEN Ident5G(m)
  ELSE IF gen = "4G" THEN IdentLTE(m)
  ELSE IF gen = "2G" THEN IdentGSM(m)
  ELSE Ident3G(m)

\* what a call that raised hands back in place of a mapping
Raised == [error |-> <<"raised">>]

\* the loop over parts from element k on, b being the accumulator
RECURSIVE LoopFrom(_, _, _)
LoopFrom(ps, k, b) ==
  IF k > Len(ps) THEN StripEmpty(b)
  ELSE LET p == Upper(Strip(ps[k]))
           gen == BlockOf(p)
           m == re_search(p)
       IN IF p = <<>> \/ gen = "none" \/ m = <<>> THEN LoopFrom(ps, k + 1, b)
          ELSE IF gen \in {"4G", "2G"} /\ IntRaises(m) THEN Raised
          ELSE LoopFrom(ps, k + 1, [b EXCEPT ![gen] = Append(@, IdentOf(gen, m))])

normalize_bands(s) ==
  IF Falsy(s) THEN EmptyDict
  ELSE IF s = None THEN Raised
  ELSE LoopFrom(re_split(s), 1, EmptyBands)

(***************************************************************************)
(* Concurrent calls of normalize_bands: NumCalls calls, one running at a   *)
(* time and switched at any step. The running call's locals are the        *)
(* variables of normalize_bands; the other calls' locals wait in frames.   *)
(***************************************************************************)
NumCalls == 2

CallStrings ==
  { None, <<>>,
    <<"n","7","8">>,
    <<"L","T","E","1","8","0","0","/","L","T","E","2","6","0","0">>,
    <<"U","M","T","S","2","1","0","0","+","W","i","M","A","X","2","5","0","0">>,
    <<"G","S","M"," "," ","a","n","d"," ","L","T","E",",","+"," ","n"," ">> }

\* the locals of the running call
CurrentFrame ==
  [band_str |-> band_str, pc |-> pc, parts |-> parts, i |-> i,
   bands |-> bands, result |-> result, log |-> log]

\* the locals of a call about to start with argument s
NewFrame(s) ==
  [band_str |-> s, pc |-> "start", parts |-> <<>>, i |-> 0,
   bands |-> EmptyBands, result |-> EmptyDict, log |-> <<>>]

\* locals kept at module level: a resumed call finds what the other left
SharedLocals(q) == CurrentFrame

\* the locals call q finds when it resumes: its own
LoadFrame(q) == frames[q]

CallSwitch ==
  /\ running > 0
  /\ \E q \in (1..NumCalls) \ {running} :
       /\ frames' = [frames EXCEPT ![running] = CurrentFrame]
       /\ running' = q
       /\ LET f == LoadFrame(q)
          IN /\ band_str' = f.band_str
             /\ pc' = f.pc
             /\ parts' = f.parts
             /\ i' = f.i
             /\ bands' = f.bands
             /\ result' = f.result
             /\ log' = f.log
  /\ UNCHANGED <<args, kvars, bvars, dvars, pvars>>

InitCalls ==
  /\ args \in [1..NumCalls -> CallStrings]
  /\ running \in 1..NumCalls
  /\ frames = [p \in 1..NumCalls |-> NewFrame(args[p])]
  /\ band_str = args[running]
  /\ pc = "start"
  /\ parts = <<>>
  /\ i = 0
  /\ bands = EmptyBands
  /\ result = EmptyDict
  /\ log = <<>>
  /\ KeysIdle
  /\ BatchIdle
  /\ DbIdle
  /\ PipeIdle

NextCalls ==
  \/ NextBands
  \/ CallSwitch

SpecCalls == InitCalls /\ [][NextCalls]_vars

\* the locals of call p, running or not
FrameOfCall(p) == IF p = running THEN CurrentFrame ELSE frames[p]

\* C11: the mapping a call returns depends on its own argument alone: under
\* every interleaving of the calls it is the mapping an uninterrupted run
\* returns for that argument, two calls with one argument return the same,
\* and a step of one call leaves the locals of every other call as they
\* were.
C11_Independent ==
  /\ [](\A p \in 1..NumCalls :
         LET f == FrameOfCall(p)
         IN /\ f.band_str = args[p]
            /\ f.pc # "raised"
            /\ f.pc = "done" => f.result = normalize_bands(args[p])
            /\ \A q \in 1..NumCalls :
                 (f.pc = "done" /\ FrameOfCall(q).pc = "done"
                  /\ args[p] = args[q])
                   => FrameOfCall(q).result = f.result)
  /\ [][\A p \in 1..NumCalls :
          (p # running \/ p # running') => frames'[p] = FrameOfCall(p)]_vars

C11_Witness ==
  /\ args[1] = <<"L","T","E","1","8","0","0","/","L","T","E","2","6","0","0">>
  /\ args[2] = <<"G","S","M"," "," ","a","n","d"," ","L","T","E",",","+",
                 " ","n"," ">>
  /\ running = 2
  /\ pc = "loop" /\ i = 3
  /\ frames[1].pc = "done"
  /\ Len(frames[1].log) = 2

(***************************************************************************)
(* The batch loop of convert_bands.py                                      *)
(***************************************************************************)
MaxRecords == 2

\* d.get(k): the value, or None
DictGet(d, k) == IF k \in DOMAIN d THEN d[k] ELSE None

\* rec.get("Bands") or rec.get("bands") or "": the alias preferred
BandStrAliasFirst(o) ==
  IF ~Falsy(DictGet(o, "Bands")) THEN o["Bands"]
  ELSE IF ~Falsy(DictGet(o, "bands")) THEN o["bands"]
  ELSE <<>>

\* rec.get("bands") or rec.get("Bands") or ""
BandStrOf(o) ==
  IF ~Falsy(DictGet(o, "bands")) THEN o["bands"]
  ELSE IF ~Falsy(DictGet(o, "Bands")) THEN o["Bands"]
  ELSE <<>>

\* rec = normalize_record_keys(rec), at the call
B_Normalize ==
  /\ bpc = "next"
  /\ bidx <= Len(raw)
  /\ rec_in' = raw[bidx]
  /\ heap' = <<raw[bidx], EmptyDict>>
  /\ out_ref' = 0
  /\ kpc' = "start"
  /\ bpc' = "keys"
  /\ UNCHANGED <<nbvars, cvars, dvars, pvars, raw, bidx, out_recs, passed, dst>>

\* band_str = ...; normalize_bands(band_str), at the call
B_CallBands ==
  /\ bpc = "keys"
  /\ kpc = "ret"
  /\ band_str' = BandStrOf(out)
  /\ passed' = Append(passed, band_str')
  /\ pc' = "start"
  /\ parts' = <<>>
  /\ i' = 0
  /\ bands' = EmptyBands
  /\ result' = EmptyDict
  /\ log' = <<>>
  /\ bpc' = "bands"
  /\ UNCHANGED <<kvars, cvars, dvars, pvars, raw, bidx, out_recs, dst>>

\* rec["bands_structured"] = the value returned; out.append(rec)
B_Append ==
  /\ bpc = "bands"
  /\ pc \in {"done", "raised"}
  /\ IF pc = "raised"
     THEN /\ bpc' = "raised"
          /\ UNCHANGED <<heap, out_recs, bidx>>
     ELSE /\ heap' = [heap EXCEPT ![out_ref] =
                        DictSet(@, "bands_structured", result)]
          /\ out_recs' = Append(out_recs, heap'[out_ref])
          /\ bidx' = bidx + 1
          /\ bpc' = "next"
  /\ pc' = "idle"
  /\ kpc' = "idle"
  /\ UNCHANGED <<band_str, parts, i, bands, result, log, rec_in, out_ref,
                 cvars, dvars, pvars, raw, passed, dst>>

\* dst_path.write_text(json.dumps(out, ...))
B_Write ==
  /\ bpc = "next"
  /\ bidx > Len(raw)
  /\ dst' = out_recs
  /\ bpc' = "written"
  /\ UNCHANGED <<nbvars, kvars, cvars, dvars, pvars, raw, bidx, out_recs, passed>>

\* the records of mcc-mnc.json: the bands field under either, both or no
\* spelling, empty or not, and one record whose MCC key carries the BOM
BandsA == <<"L","T","E","1","8","0","0","/",",","n","7","8">>
BandsB == <<"G","S","M","9","0","0","+","U","M","T","S","2","1","0","0",
            "+","W","i","M","A","X">>

BatchRecords ==
  { ("MCC" :> <<"3","1","0">>) @@ u @@ l :
      u \in {EmptyDict, "Bands" :> <<>>, "Bands" :> BandsA},
      l \in {EmptyDict, "bands" :> <<>>, "bands" :> BandsB} }
  \cup { (BOM_MCC_KEY :> <<"3","1","0">>) @@ ("Bands" :> BandsA) }

RECURSIVE SeqsUpTo(_, _)
SeqsUpTo(S, n) ==
  IF n = 0 THEN {<<>>}
  ELSE LET prev == SeqsUpTo(S, n - 1)
       IN prev \cup {Append(q, x) : q \in prev, x \in S}

InitBatch ==
  /\ raw \in SeqsUpTo(BatchRecords, MaxRecords)
  /\ bidx = 1
  /\ out_recs = <<>>
  /\ passed = <<>>
  /\ dst = <<>>
  /\ bpc = "next"
  /\ BandsIdle
  /\ KeysIdle
  /\ CallsIdle
  /\ DbIdle
  /\ PipeIdle

NextBatch ==
  \/ B_Normalize
  \/ NextKeys
  \/ B_CallBands
  \/ NextBands
  \/ B_Append
  \/ B_Write

SpecBatch == InitBatch /\ [][NextBatch]_vars

\* the band string of record r as the documentation selects it
SelectedBands(r) ==
  IF "bands" \in DOMAIN r /\ r["bands"] # <<>> THEN r["bands"]
  ELSE IF "Bands" \in DOMAIN r /\ r["Bands"] # <<>> THEN r["Bands"]
  ELSE <<>>

\* C12: the batch loop writes one record per input record, in input order,
\* each with the input record's fields and a bands_structured field equal
\* to normalize_bands(s), s being the record's "bands" value if non-empty,
\* else its "Bands" value if non-empty, else "".
C12_BatchOutput ==
  /\ bpc # "raised"
  /\ bpc \in {"next", "written"} => Len(out_recs) = bidx - 1
  /\ bpc = "written" => (dst = out_recs /\ Len(dst) = Len(raw))
  /\ \A k \in 1..Len(out_recs) :
       /\ passed[k] = SelectedBands(raw[k])
       /\ "bands_structured" \in DOMAIN out_recs[k]
       /\ out_recs[k]["bands_structured"] = normalize_bands(SelectedBands(raw[k]))
       /\ \A key \in (DOMAIN raw[k]) \ {BOM_MCC_KEY} :
            key \in DOMAIN out_recs[k] /\ out_recs[k][key] = raw[k][key]
       /\ out_recs[k]["MCC"] = <<"3","1","0">>

C12_Witness ==
  /\ bpc = "written"
  /\ Len(dst) = MaxRecords
  /\ "Bands" \in DOMAIN raw[1] /\ "bands" \in DOMAIN raw[1]
  /\ raw[1]["bands"] = <<>>
  /\ passed[1] = BandsA
  /\ "Bands" \notin DOMAIN raw[2]
  /\ passed[2] = BandsB

(***************************************************************************)
(* The database batches: load_into_postgres (update_mcc_mnc.py), main of   *)
(* sync_bands_to_db.py and main of update_sat_catalog.py. A table is a set *)
(* of <<row id, version>>. With autocommit off, statements change only     *)
(* what the connection's transaction sees; commit() makes that the         *)
(* committed table; rollback() and close() discard it. Every statement,    *)
(* connect() and commit() may raise.                                       *)
(***************************************************************************)
MaxRows == 2

\* conn.autocommit = True
AutocommitOn == TRUE

\* conn.autocommit = False
Autocommit == FALSE

\* cur.execute(...) leaving the table as T
Execute(T) ==
  IF Autocommit
  THEN committed' = T /\ tx' = T
  ELSE tx' = T /\ UNCHANGED committed

\* an exception raised inside the try block
ToExcept ==
  /\ dpc' = "except"
  /\ UNCHANGED <<committed, tx>>

\* UPDATE ... WHERE the key of row k
Updated(T, k) ==
  {e \in T : e[1] # k} \cup {<<k, "synced">> : e \in {x \in T : x[1] = k}}

\* INSERT ... ON CONFLICT (norad_id) DO UPDATE for satellite k
Upserted(T, k, version) ==
  {e \in T : ~(e[1] = k /\ e[2] \in {"old", version})} \cup {<<k, version>>}

\* load_into_postgres
L_Connect ==
  /\ script = "load"
  /\ dpc = "connect"
  /\ \E ok \in BOOLEAN :
       IF ok THEN dpc' = "truncate" /\ exc' = exc
       ELSE dpc' = "raised" /\ exc' = "Exception"
  /\ UNCHANGED <<script, rows, ridx, values, committed, tx, before,
                 did_commit, notdb>>

L_Truncate ==
  /\ script = "load"
  /\ dpc = "truncate"
  /\ \E ok \in BOOLEAN :
       IF ok THEN Execute({}) /\ dpc' = "rows" ELSE ToExcept
  /\ UNCHANGED <<script, rows, ridx, values, before, exc, did_commit, notdb>>

L_Row ==
  /\ script = "load"
  /\ dpc = "rows"
  /\ ridx <= Len(rows)
  /\ values' = IF rows[ridx] = "valid" THEN Append(values, ridx) ELSE values
  /\ ridx' = ridx + 1
  /\ UNCHANGED <<script, dpc, rows, committed, tx, before, exc, did_commit,
                 notdb>>

\* if not values: raise SystemExit, which except Exception does not catch
L_NoValues ==
  /\ script = "load"
  /\ dpc = "rows"
  /\ ridx > Len(rows)
  /\ values = <<>>
  /\ exc' = "SystemExit"
  /\ dpc' = "finally"
  /\ UNCHANGED <<script, rows, ridx, values, committed, tx, before,
                 did_commit, notdb>>

L_Insert ==
  /\ script = "load"
  /\ dpc = "rows"
  /\ ridx > Len(rows)
  /\ values # <<>>
  /\ \E ok \in BOOLEAN :
       IF ok
       THEN /\ Execute(tx \cup {<<values[k], "new">> : k \in 1..Len(values)})
            /\ dpc' = "commit"
       ELSE ToExcept
  /\ UNCHANGED <<script, rows, ridx, values, before, exc, did_commit, notdb>>

\* main of sync_bands_to_db.py
S_Connect ==
  /\ script = "sync"
  /\ dpc = "connect"
  /\ \E ok \in BOOLEAN :
       IF ok THEN dpc' = "rows" /\ exc' = exc
       ELSE dpc' = "raised" /\ exc' = "Exception"
  /\ UNCHANGED <<script, rows, ridx, values, committed, tx, before,
                 did_commit, notdb>>

S_Row ==
  /\ script = "sync"
  /\ dpc = "rows"
  /\ ridx <= Len(rows)
  /\ IF rows[ridx] # "valid"
     THEN ridx' = ridx + 1 /\ UNCHANGED <<dpc, committed, tx>>
     ELSE \E ok \in BOOLEAN :
            IF ok
            THEN Execute(Updated(tx, ridx)) /\ ridx' = ridx + 1 /\ dpc' = dpc
            ELSE ToExcept /\ ridx' = ridx
  /\ UNCHANGED <<script, rows, values, before, exc, did_commit, notdb>>

\* main of update_sat_catalog.py
T_Connect ==
  /\ script = "sat"
  /\ dpc = "connect"
  /\ \E ok \in BOOLEAN :
       IF ok THEN dpc' = "rows" /\ exc' = exc
       ELSE dpc' = "raised" /\ exc' = "Exception"
  /\ UNCHANGED <<script, rows, ridx, values, committed, tx, before,
                 did_commit, notdb>>

T_Catalog ==
  /\ script = "sat"
  /\ dpc = "rows"
  /\ ridx <= Len(rows)
  /\ \E ok \in BOOLEAN :
       IF ok THEN Execute(Upserted(tx, ridx, "catalog")) /\ dpc' = "tle"
       ELSE ToExcept
  /\ UNCHANGED <<script, rows, ridx, values, before, exc, did_commit, notdb>>

\* get_tle returns a TLE, returns None, None, or raises; the TLE is upserted
T_Tle ==
  /\ script = "sat"
  /\ dpc = "tle"
  /\ \E got \in {"tle", "none", "raise"} : \E ok \in BOOLEAN :
       IF got = "raise" \/ (got = "tle" /\ ~ok)
       THEN ToExcept /\ ridx' = ridx
       ELSE /\ IF got = "tle" THEN Execute(Upserted(tx, ridx, "tle"))
               ELSE UNCHANGED <<committed, tx>>
            /\ ridx' = ridx + 1
            /\ dpc' = "rows"
  /\ UNCHANGED <<script, rows, values, before, exc, did_commit, notdb>>

\* conn.commit(), after the last statement of the batch
D_Commit ==
  /\ \/ dpc = "commit"
     \/ script \in {"sync", "sat"} /\ dpc = "rows" /\ ridx > Len(rows)
  /\ \E ok \in BOOLEAN :
       IF ok
       THEN committed' = tx /\ did_commit' = TRUE /\ dpc' = "finally"
       ELSE dpc' = "except" /\ UNCHANGED <<committed, did_commit>>
  /\ UNCHANGED <<script, rows, ridx, values, tx, before, exc, notdb>>

\* except Exception: conn.rollback(); raise
D_Except ==
  /\ dpc = "except"
  /\ tx' = committed
  /\ exc' = "Exception"
  /\ dpc' = "finally"
  /\ UNCHANGED <<script, rows, ridx, values, committed, before, did_commit,
                 notdb>>

\* finally: conn.close(), which discards what was not committed
D_Finally ==
  /\ dpc = "finally"
  /\ tx' = committed
  /\ dpc' = IF exc = "none" THEN "done" ELSE "raised"
  /\ UNCHANGED <<script, rows, ridx, values, committed, before, exc,
                 did_commit, notdb>>

NextLoad ==
  \/ L_Connect
  \/ L_Truncate
  \/ L_Row
  \/ L_NoValues
  \/ L_Insert
  \/ D_Commit
  \/ D_Except
  \/ D_Finally

\* the rows of a batch: each with or without a usable MCC/MNC key
RowSeqs == SeqsUpTo({"valid", "invalid"}, MaxRows)

\* the table before the batch: rows of an earlier load
OldTables == SUBSET {<<k, "old">> : k \in 1..MaxRows}

InitDb ==
  /\ script \in {"load", "sync", "sat"}
  /\ dpc = "connect"
  /\ rows \in IF script = "sat" THEN {[k \in 1..MaxRows |-> "valid"]}
               ELSE RowSeqs
  /\ ridx = 1
  /\ values = <<>>
  /\ committed \in OldTables
  /\ tx = committed
  /\ before = committed
  /\ exc = "none"
  /\ did_commit = FALSE
  /\ BandsIdle
  /\ KeysIdle
  /\ CallsIdle
  /\ BatchIdle
  /\ PipeIdle

NextDb ==
  \/ NextLoad
  \/ S_Connect
  \/ S_Row
  \/ T_Connect
  \/ T_Catalog
  \/ T_Tle

SpecDb == InitDb /\ [][NextDb]_vars

\* C14: each database batch is one transaction: the committed table is the
\* one from before the batch until conn.commit() returns, commit() is
\* called only when every row was processed and no exception is in flight,
\* and a batch that ends with an exception or SystemExit leaves the table
\* as it was, neither truncated nor partly updated.
C14_OneTransaction ==
  /\ ~did_commit => committed = before
  /\ did_commit =>
       /\ ridx = Len(rows) + 1
       /\ exc = "none"
       /\ dpc \in {"finally", "done"}
       /\ script = "load" => values # <<>>
  /\ dpc = "raised" => (committed = before /\ ~did_commit)
  /\ dpc \in {"done", "raised"} => tx = committed

C14_Witness ==
  /\ script = "load"
  /\ dpc = "raised"
  /\ exc = "SystemExit"
  /\ Len(rows) = MaxRows
  /\ before = {<<k, "old">> : k \in 1..MaxRows}
  /\ committed = before

(***************************************************************************)
(* The MCC/MNC update pipeline: main of update_mcc_mnc.py. The stages run  *)
(* in sequence in one process; any stage may raise, and an uncaught        *)
(* exception or SystemExit ends the process with a non-zero status.        *)
(***************************************************************************)
Outputs == {"mcc-mnc.csv", "mcc-mnc.json", "mcc_mnc_carriers",
            "mcc-mnc-converted.json"}

\* an exception or SystemExit that nothing in main catches
Abort ==
  /\ ppc' = "exit"
  /\ status' = "nonzero"

\* download_csv: writes mcc-mnc.csv.tmp only
P_Download ==
  /\ ppc = "download"
  /\ \E ok \in BOOLEAN : IF ok THEN ppc' = "replace" /\ status' = status
                          ELSE Abort
  /\ UNCHANGED <<files, have_script, dvars, nbvars, kvars, cvars, bvars>>

\* tmp_csv.replace(CSV_PATH)
P_Replace ==
  /\ ppc = "replace"
  /\ \E ok \in BOOLEAN :
       IF ok
       THEN /\ files' = files \cup {"mcc-mnc.csv"}
            /\ ppc' = "parse"
            /\ status' = status
       ELSE Abort /\ files' = files
  /\ UNCHANGED <<have_script, dvars, nbvars, kvars, cvars, bvars>>

\* csv_to_json: read the rows; SystemExit when there are none
P_Parse ==
  /\ ppc = "parse"
  /\ \E parsed \in RowSeqs :
       /\ rows' = parsed
       /\ IF parsed = <<>> THEN Abort ELSE ppc' = "json" /\ status' = status
  /\ UNCHANGED <<files, have_script, script, dpc, ridx, values, committed,
                 tx, before, exc, did_commit, nbvars, kvars, cvars, bvars>>

\* csv_to_json: json_path.write_text(...)
P_WriteJson ==
  /\ ppc = "json"
  /\ \E ok \in BOOLEAN :
       IF ok
       THEN /\ files' = files \cup {"mcc-mnc.json"}
            /\ ppc' = "load"
            /\ status' = status
       ELSE Abort /\ files' = files
  /\ UNCHANGED <<have_script, dvars, nbvars, kvars, cvars, bvars>>

\* csv_to_json: the call load_into_postgres(rows)
P_Load ==
  /\ ppc = "load"
  /\ dpc = "idle"
  /\ dpc' = "connect"
  /\ ppc' = "loading"
  /\ UNCHANGED <<files, status, have_script, script, rows, ridx, values,
                 committed, tx, before, exc, did_commit, nbvars, kvars,
                 cvars, bvars>>

\* load_into_postgres returned, or what it raised propagates out of main
P_Loaded ==
  /\ ppc = "loading"
  /\ dpc \in {"done", "raised"}
  /\ IF dpc = "done" THEN ppc' = "convert" /\ status' = status ELSE Abort
  /\ UNCHANGED <<files, have_script, dvars, nbvars, kvars, cvars, bvars>>

\* run_convert_bands: a missing script is a warning and a plain return
P_Convert ==
  /\ ppc = "convert"
  /\ IF ~have_script
     THEN ppc' = "finish" /\ UNCHANGED <<files, status>>
     ELSE \E returncode \in {"zero", "nonzero"} :
            IF returncode = "zero"
            THEN /\ files' = files \cup {"mcc-mnc-converted.json"}
                 /\ ppc' = "finish"
                 /\ status' = status
            ELSE Abort /\ files' = files
  /\ UNCHANGED <<have_script, dvars, nbvars, kvars, cvars, bvars>>

\* main returns
P_Finish ==
  /\ ppc = "finish"
  /\ ppc' = "exit"
  /\ status' = "zero"
  /\ UNCHANGED <<files, have_script, dvars, nbvars, kvars, cvars, bvars>>

InitPipe ==
  /\ ppc = "download"
  /\ files = {}
  /\ status = "none"
  /\ have_script \in BOOLEAN
  /\ script = "load"
  /\ dpc = "idle"
  /\ rows = <<>>
  /\ ridx = 1
  /\ values = <<>>
  /\ committed \in OldTables
  /\ tx = committed
  /\ before = committed
  /\ exc = "none"
  /\ did_commit = FALSE
  /\ BandsIdle
  /\ KeysIdle
  /\ CallsIdle
  /\ BatchIdle

NextPipe ==
  \/ P_Download
  \/ P_Replace
  \/ P_Parse
  \/ P_WriteJson
  \/ P_Load
  \/ NextLoad
  \/ P_Loaded
  \/ P_Convert
  \/ P_Finish

SpecPipe == InitPipe /\ [][NextPipe]_vars

\* the outputs this run has updated
UpdatedOutputs ==
  files \cup (IF did_commit THEN {"mcc_mnc_carriers"} ELSE {})

\* C15: a run of the update pipeline that ended with non-zero status
\* stopped at the failing stage, and left the four outputs either all
\* updated by this run or none of them updated: never some and not others.
C15_NoPartialOutput ==
  status = "nonzero" =>
    /\ ppc = "exit"
    /\ UpdatedOutputs \in {{}, Outputs}

====
